---- MODULE Spec2Model ----
(***************************************************************************)
(* Model of network_tool (src/main.py): a FastAPI service that enumerates  *)
(* the access-control entries of a directory and of its immediate          *)
(* subdirectories, writes them to a timestamp-named CSV report and serves  *)
(* report files for download.                                              *)
(*                                                                         *)
(* The operating system (file system, security descriptors, account        *)
(* database, directory scan, wall clock, disk) is the environment: its     *)
(* state is drawn in Init and its per-call outcomes are inputs of the      *)
(* actions.                                                                *)
(***************************************************************************)
EXTENDS Integers, Sequences, FiniteSets, TLC

VARIABLES
    clock,      \* wall-clock second read by datetime.now()                (main.py:117)
    reports,    \* files of the reports directory: name -> parsed CSV rows (main.py:24)
    sd,         \* resolved path -> security descriptor the OS returns     (main.py:48)
    scan,       \* resolved path -> outcome of the one-level os.walk       (main.py:104)
    last        \* the last call made and what it returned

vars == <<clock, reports, sd, scan, last>>

(***************************************************************************)
(* Bounds of the model.                                                    *)
(***************************************************************************)
MaxClock == 1
MaxAces == 2

(***************************************************************************)
(* Constants of win32security / ntsecuritycon used by the decoding.        *)
(***************************************************************************)
FILE_ALL_ACCESS == 2032127
FILE_GENERIC_READ == 1179785
FILE_GENERIC_WRITE == 1179926
FILE_GENERIC_EXECUTE == 1179808
DELETE == 65536
ACCESS_ALLOWED_ACE_TYPE == 0
ACCESS_DENIED_ACE_TYPE == 1

REPORTS_DIR == "reports"

\* Python's a & b on non-negative integers.
RECURSIVE BitAnd(_, _)
BitAnd(a, b) ==
    IF a = 0 \/ b = 0 THEN 0
    ELSE (a % 2) * (b % 2) + 2 * BitAnd(a \div 2, b \div 2)

\* sep.join(items)
RECURSIVE StrJoin(_, _)
StrJoin(sep, items) ==
    IF items = <<>> THEN ""
    ELSE IF Len(items) = 1 THEN items[1]
    ELSE items[1] \o sep \o StrJoin(sep, Tail(items))

(***************************************************************************)
(* Windows paths. A path string is held parsed: its drive ("" when it has  *)
(* none), whether a separator follows the drive (rooted), its components,  *)
(* and whether a separator ends it. PathStr gives the string back.         *)
(***************************************************************************)
Path(drive, rooted, parts, trail) ==
    [drive |-> drive, rooted |-> rooted, parts |-> parts, trail |-> trail]

\* a single relative name
Name(n) == Path("", FALSE, <<n>>, FALSE)

PathStr(p) ==
    p.drive \o (IF p.rooted THEN "\\" ELSE "") \o StrJoin("\\", p.parts)
        \o (IF p.trail /\ p.parts # <<>> THEN "\\" ELSE "")

\* os.path.join(a, b) of ntpath: a rooted b replaces a's path, b's other drive
\* replaces a, and otherwise one separator joins them unless a's path is empty or
\* already ends in one.
os_path_join(a, b) ==
    IF b.rooted
    THEN Path(IF b.drive # "" \/ a.drive = "" THEN b.drive ELSE a.drive,
              TRUE, b.parts, b.trail)
    ELSE IF b.drive # "" /\ b.drive # a.drive THEN b
    ELSE Path(a.drive, a.rooted, a.parts \o b.parts,
              IF b.parts = <<>> THEN a.parts # <<>> ELSE b.trail)

(***************************************************************************)
(* The file system: drive C: with the working directory C:\app (main.py    *)
(* and the reports directory in it) and the shared tree C:\share with two  *)
(* subdirectories. A resolved path is <<drive, component, ...>>.           *)
(***************************************************************************)
DRIVE == "C:"
Cwd == <<DRIVE, "app">>
ReportsRoot == Cwd \o <<REPORTS_DIR>>
MainPy == Cwd \o <<"main.py">>
RootAbs == <<DRIVE, "share">>
HrAbs == RootAbs \o <<"hr">>
ItAbs == RootAbs \o <<"it">>
Dirs == {RootAbs, HrAbs, ItAbs}

ROOT == Path(DRIVE, TRUE, <<"share">>, FALSE)
ROOT_TRAIL == Path(DRIVE, TRUE, <<"share">>, TRUE)
MISSING == Path(DRIVE, TRUE, <<"missing">>, FALSE)
REPORTS_PATH == Name(REPORTS_DIR)
EMPTY_PATH == Path("", FALSE, <<>>, FALSE)

\* "." and ".." collapsed, ".." at the root staying there
RECURSIVE Collapse(_, _)
Collapse(parts, acc) ==
    IF parts = <<>> THEN acc
    ELSE IF Head(parts) = "." THEN Collapse(Tail(parts), acc)
    ELSE IF Head(parts) = ".."
         THEN Collapse(Tail(parts),
                       IF Len(acc) > 0 THEN SubSeq(acc, 1, Len(acc) - 1) ELSE acc)
    ELSE Collapse(Tail(parts), Append(acc, Head(parts)))

\* How the file system resolves a path: on its drive (the current one when it
\* names none), from the root when rooted and from the working directory otherwise.
Resolve(p) ==
    LET drive == IF p.drive # "" THEN p.drive ELSE DRIVE
        base == IF p.rooted \/ drive # DRIVE THEN <<>> ELSE Tail(Cwd)
    IN  <<drive>> \o Collapse(base \o p.parts, <<>>)

InsideReports(abs) ==
    /\ Len(abs) = Len(ReportsRoot) + 1
    /\ SubSeq(abs, 1, Len(ReportsRoot)) = ReportsRoot

\* What is on disk at a resolved path.
NodeKind(abs) ==
    IF abs \in {<<DRIVE>>, Cwd, ReportsRoot} \cup Dirs THEN "dir"
    ELSE IF abs = MainPy THEN "file"
    ELSE IF InsideReports(abs) /\ abs[Len(abs)] \in DOMAIN reports THEN "file"
    ELSE "missing"

\* os.path.exists: the empty string and a file named with a trailing separator
\* do not exist
os_path_exists(p) ==
    /\ PathStr(p) # ""
    /\ \/ NodeKind(Resolve(p)) = "dir"
       \/ NodeKind(Resolve(p)) = "file" /\ ~(p.trail /\ p.parts # <<>>)

(***************************************************************************)
(* Security descriptors and the account database.                          *)
(***************************************************************************)
SID_ADMINS == "S-1-5-32-544"
SID_ORPHAN == "S-1-5-21-1004"

\* win32security.LookupAccountSid(None, sid): (user_name, domain, _) or an exception
LookupAccountSid(sid) ==
    IF sid = SID_ADMINS
    THEN [raised |-> FALSE, user_name |-> "Administrators", domain |-> "BUILTIN"]
    ELSE [raised |-> TRUE, user_name |-> "", domain |-> ""]

\* One ACE as dacl.GetAce(i) returns it: ((type, flags), mask, sid); raises = GetAce throws.
Ace(t, m, s) == [raises |-> FALSE, acetype |-> t, mask |-> m, sid |-> s]
BadAce == [raises |-> TRUE, acetype |-> 0, mask |-> 0, sid |-> ""]

\* What GetFileSecurity / GetSecurityDescriptorDacl give for a path.
SdRaises == [state |-> "raises", aces |-> <<>>]
SdNullDacl == [state |-> "null", aces |-> <<>>]
SdDacl(aces) == [state |-> "dacl", aces |-> aces]

\* the descriptor of everything outside the shared tree
DefaultSd == SdDacl(<<Ace(ACCESS_ALLOWED_ACE_TYPE, FILE_ALL_ACCESS, SID_ADMINS)>>)

Descriptor(abs) == IF abs \in DOMAIN sd THEN sd[abs] ELSE DefaultSd

ACCESS_DENIED_MSG == "(5, 'GetFileSecurity', 'Access is denied.')"
GETACE_MSG == "(87, 'GetAce', 'The parameter is incorrect.')"

(***************************************************************************)
(* get_folder_permissions                                                  *)
(***************************************************************************)
Record(folder_path, principal, ace_type, permissions) ==
    ("Folder Path" :> folder_path) @@ ("Principal" :> principal)
        @@ ("Type" :> ace_type) @@ ("Permissions" :> permissions)

\* perms_list with the full-control test passing on any shared bit
perms_list_any_bit(access_mask) ==
    IF BitAnd(access_mask, FILE_ALL_ACCESS) # 0
    THEN <<"Full Control">>
    ELSE <<"Special (Mask: " \o ToString(access_mask) \o ")">>

\* lines 66-77: the access mask as a list of labels
perms_list(access_mask) ==
    IF BitAnd(access_mask, FILE_ALL_ACCESS) = FILE_ALL_ACCESS
    THEN <<"Full Control">>
    ELSE LET labels ==
                 (IF BitAnd(access_mask, FILE_GENERIC_READ) # 0 THEN <<"Read">> ELSE <<>>)
              \o (IF BitAnd(access_mask, FILE_GENERIC_WRITE) # 0 THEN <<"Write">> ELSE <<>>)
              \o (IF BitAnd(access_mask, FILE_GENERIC_EXECUTE) # 0 THEN <<"Execute">> ELSE <<>>)
              \o (IF BitAnd(access_mask, DELETE) # 0 THEN <<"Delete">> ELSE <<>>)
         IN  IF labels = <<>>
             THEN <<"Special (Mask: " \o ToString(access_mask) \o ")">>
             ELSE labels

\* lines 56-61: the principal of one ACE
principal_of(ace) ==
    LET acct == LookupAccountSid(ace.sid)
    IN  IF acct.raised THEN ace.sid
        ELSE acct.domain \o "\\" \o acct.user_name

\* lines 63-64, 79-84: the record of one ACE
ace_record(folder_path, ace) ==
    Record(PathStr(folder_path),
           principal_of(ace),
           IF ace.acetype = ACCESS_ALLOWED_ACE_TYPE THEN "Allow" ELSE "Deny",
           StrJoin(", ", perms_list(ace.mask)))

\* lines 86-94: the record the except clause appends
error_record(folder_path, e) ==
    Record(PathStr(folder_path), "N/A", "Error",
           "Could not access permissions: " \o e)

\* lines 54-84: the loop over the DACL; stops where GetAce raises
RECURSIVE ace_loop(_, _, _, _)

\* ace_loop over range(dacl.GetAceCount() - 1): the last ACE is never read
ace_loop_short(folder_path, aces, i, permissions_data) ==
    IF i >= Len(aces) THEN [raised |-> FALSE, data |-> permissions_data]
    ELSE IF aces[i].raises THEN [raised |-> TRUE, data |-> permissions_data]
    ELSE ace_loop(folder_path, aces, i + 1,
                  Append(permissions_data, ace_record(folder_path, aces[i])))

ace_loop(folder_path, aces, i, permissions_data) ==
    IF i > Len(aces) THEN [raised |-> FALSE, data |-> permissions_data]
    ELSE IF aces[i].raises THEN [raised |-> TRUE, data |-> permissions_data]
    ELSE ace_loop(folder_path, aces, i + 1,
                  Append(permissions_data, ace_record(folder_path, aces[i])))

\* get_folder_permissions with an except clause that appends no record
get_folder_permissions_silent(folder_path) ==
    IF ~os_path_exists(folder_path) THEN <<>>
    ELSE LET d == Descriptor(Resolve(folder_path))
         IN  IF d.state = "dacl"
             THEN ace_loop(folder_path, d.aces, 1, <<>>).data
             ELSE <<>>

get_folder_permissions(folder_path) ==
    IF ~os_path_exists(folder_path) THEN <<>>
    ELSE LET d == Descriptor(Resolve(folder_path))
         IN  IF d.state = "raises"
             THEN <<error_record(folder_path, ACCESS_DENIED_MSG)>>
             ELSE IF d.state = "null" THEN <<>>
             ELSE LET r == ace_loop(folder_path, d.aces, 1, <<>>)
                  IN  IF r.raised
                      THEN Append(r.data, error_record(folder_path, GETACE_MSG))
                      ELSE r.data

(***************************************************************************)
(* get_subfolders_walk                                                     *)
(***************************************************************************)
ScanOk(dirnames) == [ok |-> TRUE, dirnames |-> dirnames]
ScanFails == [ok |-> FALSE, dirnames |-> <<>>]

\* the directories directly under a directory outside the shared tree's root
ChildDirs(abs) ==
    IF abs = <<DRIVE>> THEN <<"app", "share">>
    ELSE IF abs = Cwd THEN <<REPORTS_DIR>>
    ELSE <<>>

\* next(os.walk(top)): the scan of the shared root is the environment's; any other
\* directory lists its subdirectories; a file or a missing path yields nothing
Walk(top) ==
    IF ~os_path_exists(top) THEN ScanFails
    ELSE IF Resolve(top) \in DOMAIN scan THEN scan[Resolve(top)]
    ELSE IF NodeKind(Resolve(top)) = "dir" THEN ScanOk(ChildDirs(Resolve(top)))
    ELSE ScanFails

get_subfolders_walk(parent_folder) ==
    IF ~Walk(parent_folder).ok THEN <<>>
    ELSE [i \in 1..Len(Walk(parent_folder).dirnames) |->
              os_path_join(parent_folder, Name(Walk(parent_folder).dirnames[i]))]

(***************************************************************************)
(* write_permissions_to_csv                                                *)
(***************************************************************************)
None == [some |-> FALSE]
Some(v) == [some |-> TRUE, val |-> v]

Pad2(n) == ToString(n \div 10) \o ToString(n % 10)

\* datetime.now().strftime("%Y-%m-%d_%H-%M-%S"), `now` counted in seconds of one day
strftime(now) ==
    "2024-01-01_" \o Pad2(now \div 3600) \o "-" \o Pad2((now \div 60) % 60)
        \o "-" \o Pad2(now % 60)

report_name(now) == "permissions_report_" \o strftime(now) \o ".csv"

headers == <<"Folder Path", "Principal", "Type", "Permissions">>

\* csv.DictWriter: one row per dictionary, its values in the order of fieldnames
csv_row(d) == [i \in 1..Len(headers) |-> d[headers[i]]]
csv_rows(data_list) == [i \in 1..Len(data_list) |-> csv_row(data_list[i])]

\* What the disk does to one write of a report: "ok"; "open_fails" (open raises and
\* nothing is created); "write_fails" (open has created or truncated the file, then
\* writeheader, writerows or the closing flush raises with only the first `kept`
\* lines on disk). A file is held as its complete lines; a line cut short by the
\* failure counts as not written.
Disk(outcome, kept) == [outcome |-> outcome, kept |-> kept]

\* The reports directory after lines 124-127.
written_reports(files, name, data_list, disk) ==
    IF disk.outcome = "ok"
    THEN (name :> (<<headers>> \o csv_rows(data_list))) @@ files
    ELSE IF disk.outcome = "write_fails"
    THEN (name :> SubSeq(<<headers>> \o csv_rows(data_list), 1, disk.kept)) @@ files
    ELSE files

\* write_permissions_to_csv without the check of lines 114-115
write_permissions_to_csv_unguarded(files, data_list, now, disk) ==
    [ret |-> IF disk.outcome = "ok" THEN Some(report_name(now)) ELSE None,
     files |-> written_reports(files, report_name(now), data_list, disk),
     opened |-> TRUE]

write_permissions_to_csv(files, data_list, now, disk) ==
    IF data_list = <<>> THEN [ret |-> None, files |-> files, opened |-> FALSE]
    ELSE [ret |-> IF disk.outcome = "ok" THEN Some(report_name(now)) ELSE None,
          files |-> written_reports(files, report_name(now), data_list, disk),
          opened |-> TRUE]

(***************************************************************************)
(* submit_link                                                             *)
(***************************************************************************)
\* A JSON body: present says whether it has the key "link".
Body(present, link) == [present |-> present, link |-> link]

\* line 147 without the existence test
invalid_link_unchecked(data) ==
    \/ ~data.present
    \/ PathStr(data.link) = ""

\* line 147: not link or not os.path.exists(link)
invalid_link(data) ==
    \/ ~data.present
    \/ PathStr(data.link) = ""
    \/ ~os_path_exists(data.link)

RECURSIVE extend_each(_, _)
extend_each(all_permissions, folders) ==
    IF folders = <<>> THEN all_permissions
    ELSE extend_each(all_permissions \o get_folder_permissions(Head(folders)),
                     Tail(folders))

\* lines 153-161 without line 156: the parent's records are left out
gather_subfolders_only(link) ==
    extend_each(<<>>, get_subfolders_walk(link))

\* lines 153-161
gather(link) ==
    extend_each(get_folder_permissions(link), get_subfolders_walk(link))

Call(fn, arg) == [fn |-> fn, arg |-> arg]

\* the calls lines 156-161 make, in order
gather_calls(link) ==
    <<Call("get_folder_permissions", PathStr(link)),
      Call("get_subfolders_walk", PathStr(link))>>
        \o [i \in 1..Len(get_subfolders_walk(link)) |->
                Call("get_folder_permissions", PathStr(get_subfolders_walk(link)[i]))]

HTTPException(status_code, detail) ==
    [status_code |-> status_code, detail |-> detail, filename |-> ""]
JSONResponse(message, filename) ==
    [status_code |-> 200, detail |-> message, filename |-> filename]

submit_link(data, disk) ==
    IF invalid_link(data)
    THEN [response |-> HTTPException(400, "Invalid or non-existent path provided."),
          files |-> reports, calls |-> <<>>, all_permissions |-> <<>>]
    ELSE LET all_permissions == gather(data.link)
             w == write_permissions_to_csv(reports, all_permissions, clock, disk)
         IN  IF all_permissions = <<>>
             THEN [response |-> HTTPException(500, "Could not retrieve any permission data."),
                   files |-> reports, calls |-> gather_calls(data.link),
                   all_permissions |-> all_permissions]
             ELSE [response |->
                       IF w.ret.some
                       THEN JSONResponse("Report generated successfully.", w.ret.val)
                       ELSE HTTPException(500, "Failed to generate the report file."),
                   files |-> w.files,
                   calls |-> Append(gather_calls(data.link),
                                    Call("write_permissions_to_csv", disk.outcome)),
                   all_permissions |-> all_permissions]

(***************************************************************************)
(* download_file                                                           *)
(***************************************************************************)
download_file(filename) ==
    IF os_path_exists(os_path_join(REPORTS_PATH, filename))
    THEN [response |-> "FileResponse", status_code |-> 200,
          path |-> PathStr(os_path_join(REPORTS_PATH, filename))]
    ELSE [response |-> "HTTPException", status_code |-> 404,
          path |-> PathStr(os_path_join(REPORTS_PATH, filename))]

(***************************************************************************)
(* The environments and inputs explored.                                   *)
(***************************************************************************)
\* read and execute: FILE_GENERIC_READ | FILE_GENERIC_EXECUTE
FILE_READ_EXECUTE == FILE_GENERIC_READ + 32

GoodAces(abs) ==
    IF abs = RootAbs
    THEN <<Ace(ACCESS_DENIED_ACE_TYPE, DELETE, SID_ORPHAN)>>
    ELSE IF abs = HrAbs
    THEN <<Ace(ACCESS_ALLOWED_ACE_TYPE, FILE_GENERIC_READ, SID_ADMINS)>>
    ELSE <<Ace(ACCESS_ALLOWED_ACE_TYPE, FILE_READ_EXECUTE, SID_ORPHAN)>>

AllGood == [p \in Dirs |-> SdDacl(GoodAces(p))]

Env(descriptors, walk) == [sd |-> descriptors, scan |-> (RootAbs :> walk)]

\* Every directory readable with the subdirectories listed in either order or the
\* scan failing; one directory (the parent or a subdirectory) failing at the
\* descriptor or at its second ACE; no DACL on the parent, or on any directory.
Envs ==
    {Env(AllGood, ScanOk(<<"hr", "it">>)),
     Env(AllGood, ScanOk(<<"it", "hr">>)),
     Env(AllGood, ScanFails),
     Env([AllGood EXCEPT ![RootAbs] = SdRaises], ScanOk(<<"hr", "it">>)),
     Env([AllGood EXCEPT ![HrAbs] = SdRaises], ScanOk(<<"hr", "it">>)),
     Env([AllGood EXCEPT ![ItAbs] = SdDacl(<<GoodAces(ItAbs)[1], BadAce>>)],
         ScanOk(<<"hr", "it">>)),
     Env([AllGood EXCEPT ![RootAbs] = SdDacl(<<GoodAces(RootAbs)[1], BadAce>>)],
         ScanFails),
     Env([AllGood EXCEPT ![RootAbs] = SdNullDacl], ScanFails),
     Env([p \in Dirs |-> SdNullDacl], ScanOk(<<"hr", "it">>))}

Bodies ==
    {Body(FALSE, EMPTY_PATH)}
        \cup {Body(TRUE, l) : l \in {EMPTY_PATH, MISSING, ROOT, REPORTS_PATH}}

\* the write outcomes for a report of n records (n + 1 lines): a failed write
\* leaves any number of leading lines short of all of them
DiskOutcomes(n) ==
    {Disk("ok", 0), Disk("open_fails", 0)}
        \cup {Disk("write_fails", k) : k \in 0..n}

Filenames ==
    {Name(report_name(t)) : t \in 0..MaxClock}
        \cup {Name("nope.csv"), Name("."),
              Path("", FALSE, <<"..", "main.py">>, FALSE),
              Path(DRIVE, TRUE, <<"share">>, FALSE),
              Path(DRIVE, FALSE, <<"main.py">>, FALSE),
              Path("", TRUE, <<"share">>, FALSE)}

NoFiles == [n \in {} |-> <<>>]

(***************************************************************************)
(* The service: requests handled one after another.                        *)
(***************************************************************************)
Init ==
    /\ clock = 0
    /\ reports = NoFiles
    /\ \E e \in Envs : sd = e.sd /\ scan = e.scan
    /\ last = [op |-> "none"]

\* a second passes
Tick ==
    /\ clock < MaxClock
    /\ clock' = clock + 1
    /\ UNCHANGED <<reports, sd, scan, last>>

SubmitLink(data, disk) ==
    \E r \in {submit_link(data, disk)} :
        /\ reports' = r.files
        /\ last' = [op |-> "submit_link", data |-> data, response |-> r.response,
                    calls |-> r.calls, all_permissions |-> r.all_permissions]
        /\ UNCHANGED <<clock, sd, scan>>

DownloadFile(filename) ==
    /\ last' = [op |-> "download_file", filename |-> filename,
                result |-> download_file(filename),
                kind |-> NodeKind(Resolve(os_path_join(REPORTS_PATH, filename))),
                resolved |-> Resolve(os_path_join(REPORTS_PATH, filename))]
    /\ UNCHANGED <<clock, reports, sd, scan>>

\* write_permissions_to_csv called on its own
CallWriter(data_list, disk) ==
    \E w \in {write_permissions_to_csv(reports, data_list, clock, disk)} :
        /\ reports' = w.files
        /\ last' = [op |-> "write_permissions_to_csv", data_list |-> data_list,
                    ret |-> w.ret, opened |-> w.opened]
        /\ UNCHANGED <<clock, sd, scan>>

Next ==
    \/ Tick
    \/ \E data \in Bodies :
           \E disk \in DiskOutcomes(IF invalid_link(data) THEN 0
                                    ELSE Len(gather(data.link))) :
               SubmitLink(data, disk)
    \/ \E filename \in Filenames : DownloadFile(filename)
    \/ \E data_list \in {<<>>, get_folder_permissions(REPORTS_PATH)} :
           \E disk \in DiskOutcomes(Len(data_list)) : CallWriter(data_list, disk)

Spec == Init /\ [][Next]_vars

(***************************************************************************)
(* get_folder_permissions and get_subfolders_walk on their own: the shared *)
(* root's descriptor is drawn from every failure shape, every DACL of up   *)
(* to MaxAces entries over a few ACEs, and every one-entry DACL over a     *)
(* lattice of masks.                                                       *)
(***************************************************************************)
GENERIC_ALL == 2^28

\* Groups of access-mask bits; the first nine add up to FILE_ALL_ACCESS.
\*   9: read data | read EA          128: read attributes
\* 278: the write bits               32: execute         64: delete child
\* 65536: DELETE   131072: READ_CONTROL   786432: WRITE_DAC | WRITE_OWNER
\* 1048576: SYNCHRONIZE
MaskAtoms == {9, 128, 278, 32, 64, DELETE, 131072, 786432, 1048576, GENERIC_ALL}

RECURSIVE SetSum(_)
SetSum(S) ==
    IF S = {} THEN 0
    ELSE LET x == CHOOSE y \in S : TRUE IN x + SetSum(S \ {x})

Masks == {SetSum(S) : S \in SUBSET MaskAtoms}

AceTypes == {ACCESS_ALLOWED_ACE_TYPE, ACCESS_DENIED_ACE_TYPE}

FewAces ==
    {BadAce} \cup
    {Ace(t, m, s) : t \in AceTypes,
                    m \in {0, FILE_GENERIC_READ, FILE_ALL_ACCESS + GENERIC_ALL},
                    s \in {SID_ADMINS, SID_ORPHAN}}

SeqsUpTo(S, n) == UNION {[1..k -> S] : k \in 0..n}

DescSetEnum ==
    {SdRaises, SdNullDacl}
        \cup {SdDacl(aces) : aces \in SeqsUpTo(FewAces, MaxAces)}
        \cup {SdDacl(<<Ace(t, m, SID_ADMINS)>>) : t \in AceTypes, m \in Masks}

InitEnum ==
    /\ clock = 0
    /\ reports = NoFiles
    /\ sd \in {(RootAbs :> d) : d \in DescSetEnum}
    /\ scan = (RootAbs :> ScanOk(<<"hr", "it">>))
    /\ last = [op |-> "none"]

CallGetFolderPermissions(folder_path) ==
    /\ last' = [op |-> "get_folder_permissions", folder_path |-> folder_path,
                ret |-> get_folder_permissions(folder_path)]
    /\ UNCHANGED <<clock, reports, sd, scan>>

CallGetSubfoldersWalk(parent_folder) ==
    /\ last' = [op |-> "get_subfolders_walk", parent_folder |-> parent_folder,
                ret |-> get_subfolders_walk(parent_folder)]
    /\ UNCHANGED <<clock, reports, sd, scan>>

\* C:\share\, C:\ and C: (the working directory of the drive)
WalkInputs ==
    {ROOT_TRAIL, Path(DRIVE, TRUE, <<>>, FALSE), Path(DRIVE, FALSE, <<>>, FALSE)}

NextEnum ==
    \/ \E folder_path \in {ROOT, MISSING} : CallGetFolderPermissions(folder_path)
    \/ \E parent_folder \in WalkInputs : CallGetSubfoldersWalk(parent_folder)

SpecEnum == InitEnum /\ [][NextEnum]_vars

(***************************************************************************)
(* Properties of get_folder_permissions (checked under SpecEnum).          *)
(***************************************************************************)
EnumCall == last.op = "get_folder_permissions"

\* the call read a DACL of the shared root
EnumDacl == EnumCall /\ last.folder_path = ROOT /\ sd[RootAbs].state = "dacl"

NoAceRaises(aces) == \A i \in 1..Len(aces) : ~aces[i].raises

AccessRaises(d) == d.state = "raises" \/ (d.state = "dacl" /\ ~NoAceRaises(d.aces))

SpecialLabel(m) == "Special (Mask: " \o ToString(m) \o ")"

GroupLabel(m) ==
    IF m = FILE_GENERIC_READ THEN "Read"
    ELSE IF m = FILE_GENERIC_WRITE THEN "Write"
    ELSE IF m = FILE_GENERIC_EXECUTE THEN "Execute"
    ELSE "Delete"

\* C1: an access mask that is exactly the bit pattern of one group (generic read,
\* generic write, generic execute, delete) is decoded to that group's label alone:
\* FILE_GENERIC_READ gives the Permissions string "Read" and nothing else.
C1_OneGroupOneLabel ==
    (/\ EnumDacl
     /\ Len(sd[RootAbs].aces) = 1
     /\ ~sd[RootAbs].aces[1].raises
     /\ sd[RootAbs].aces[1].mask \in
            {FILE_GENERIC_READ, FILE_GENERIC_WRITE, FILE_GENERIC_EXECUTE, DELETE})
    => /\ Len(last.ret) = 1
       /\ last.ret[1]["Permissions"] = GroupLabel(sd[RootAbs].aces[1].mask)

\* the path names something the file system holds
OnDisk(p) == PathStr(p) # "" /\ NodeKind(Resolve(p)) # "missing"

IsErrorRecord(r) ==
    /\ r["Type"] = "Error"
    /\ r["Permissions"] \in {"Could not access permissions: " \o ACCESS_DENIED_MSG,
                             "Could not access permissions: " \o GETACE_MSG}

\* C3: get_folder_permissions fails in two shapes only: the empty sequence for a
\* path that does not exist, and exactly one Error record (no Allow or Deny record
\* beside it) for an existing path whose descriptor, DACL or ACE access raises; an
\* Error record is always the only record of a result.
C3_ErrorRecordAlone ==
    EnumCall =>
        /\ (~OnDisk(last.folder_path) => last.ret = <<>>)
        /\ (OnDisk(last.folder_path)
                /\ AccessRaises(Descriptor(Resolve(last.folder_path)))
                => Len(last.ret) = 1 /\ IsErrorRecord(last.ret[1]))
        /\ ((\E i \in 1..Len(last.ret) : last.ret[i]["Type"] = "Error")
                => Len(last.ret) = 1)

ExpectedPrincipal(sid) ==
    IF sid = SID_ADMINS THEN "BUILTIN\\Administrators" ELSE sid

\* C7: for an existing directory whose descriptor access succeeds, a DACL of N
\* ACEs gives exactly N records, the i-th made from the i-th ACE, each with the
\* queried path as Folder Path and a non-empty Permissions string; a null DACL
\* gives the empty sequence.
C7_OneRecordPerAce ==
    (EnumCall /\ last.folder_path = ROOT) =>
        /\ (sd[RootAbs].state = "null" => last.ret = <<>>)
        /\ (sd[RootAbs].state = "dacl" /\ NoAceRaises(sd[RootAbs].aces) =>
                /\ Len(last.ret) = Len(sd[RootAbs].aces)
                /\ \A i \in 1..Len(last.ret) :
                       /\ last.ret[i]["Folder Path"] = "C:\\share"
                       /\ last.ret[i]["Permissions"] # ""
                       /\ last.ret[i]["Type"] =
                              (IF sd[RootAbs].aces[i].acetype = ACCESS_ALLOWED_ACE_TYPE
                               THEN "Allow" ELSE "Deny")
                       /\ last.ret[i]["Principal"] =
                              ExpectedPrincipal(sd[RootAbs].aces[i].sid)
                       /\ last.ret[i]["Permissions"] =
                              StrJoin(", ", perms_list(sd[RootAbs].aces[i].mask)))

C7_Witness ==
    /\ EnumDacl
    /\ Len(sd[RootAbs].aces) = 2
    /\ NoAceRaises(sd[RootAbs].aces)
    /\ sd[RootAbs].aces[1].acetype # sd[RootAbs].aces[2].acetype
    /\ sd[RootAbs].aces[1].mask # sd[RootAbs].aces[2].mask
    /\ Len(last.ret) = 2
    /\ last.ret[1]["Type"] = "Deny"
    /\ last.ret[2]["Type"] = "Allow"

\* the Permissions strings made of group labels, in the fixed order
GroupLabels(S) ==
       (IF 1 \in S THEN <<"Read">> ELSE <<>>)
    \o (IF 2 \in S THEN <<"Write">> ELSE <<>>)
    \o (IF 3 \in S THEN <<"Execute">> ELSE <<>>)
    \o (IF 4 \in S THEN <<"Delete">> ELSE <<>>)

GroupStrings == {StrJoin(", ", GroupLabels(S)) : S \in (SUBSET (1..4)) \ {{}}}

NoGroupTestFires(m) ==
    /\ BitAnd(m, FILE_GENERIC_READ) = 0
    /\ BitAnd(m, FILE_GENERIC_WRITE) = 0
    /\ BitAnd(m, FILE_GENERIC_EXECUTE) = 0
    /\ BitAnd(m, DELETE) = 0

\* C9: a mask whose bits include all of FILE_ALL_ACCESS, whatever else is set, is
\* decoded to "Full Control" alone; a mask that does not and for which no group test
\* fires is decoded to "Special (Mask: <mask>)" alone (mask 0: "Special (Mask: 0)");
\* the Special label never stands beside another label.
C9_FullControlOrSpecial ==
    EnumDacl =>
        \A i \in 1..Len(last.ret) :
            last.ret[i]["Type"] # "Error" =>
                LET m == sd[RootAbs].aces[i].mask
                    p == last.ret[i]["Permissions"]
                IN  /\ (BitAnd(m, FILE_ALL_ACCESS) = FILE_ALL_ACCESS
                            => p = "Full Control")
                    /\ (BitAnd(m, FILE_ALL_ACCESS) # FILE_ALL_ACCESS
                            /\ NoGroupTestFires(m) => p = SpecialLabel(m))
                    /\ (m = 0 => p = "Special (Mask: 0)")
                    /\ (p = "Full Control" \/ p = SpecialLabel(m) \/ p \in GroupStrings)
                    /\ (p = SpecialLabel(m) => NoGroupTestFires(m))

C9_Witness ==
    /\ EnumDacl
    /\ Len(sd[RootAbs].aces) = 2
    /\ sd[RootAbs].aces[1].mask = FILE_ALL_ACCESS + GENERIC_ALL
    /\ sd[RootAbs].aces[2].mask = 0
    /\ Len(last.ret) = 2
    /\ last.ret[1]["Permissions"] = "Full Control"
    /\ last.ret[2]["Permissions"] = "Special (Mask: 0)"

(***************************************************************************)
(* Properties of the service (checked under Spec).                         *)
(***************************************************************************)
SubmitCall == last.op = "submit_link"
SubmitOk == SubmitCall /\ last.response.status_code = 200

\* the request named a path that is present, non-empty and on disk
LinkExists(data) == data.present /\ OnDisk(data.link)

\* the filename a call returned on success
ReturnedNames(l) ==
    IF l.op = "submit_link" /\ l.response.status_code = 200
    THEN {l.response.filename}
    ELSE IF l.op = "write_permissions_to_csv" /\ l.ret.some THEN {l.ret.val}
    ELSE {}

\* C2: under sequential use no two successful write_permissions_to_csv calls return
\* the same filename, also within one second, and a report once produced is never
\* overwritten: a successful write never returns the name the successful write
\* before it returned, and no call changes the report the call before it produced.
C2_NeverOverwrites ==
    [][last' # last =>
           /\ ReturnedNames(last') \cap ReturnedNames(last) = {}
           /\ \A name \in ReturnedNames(last) :
                  name \in DOMAIN reports' /\ reports'[name] = reports[name]]_vars

\* C4: download_file answers with the file only when the filename resolves to an
\* existing regular file inside the reports directory; for every other filename
\* (not on disk, a directory, or outside the reports directory) it answers 404.
C4_ServesOnlyReports ==
    last.op = "download_file" =>
        LET abs == last.resolved
            served == NodeKind(abs) = "file" /\ InsideReports(abs)
        IN  /\ (last.result.response = "FileResponse" <=> served)
            /\ (~served => last.result.status_code = 404)

RECURSIVE ConcatAll(_)
ConcatAll(seqs) ==
    IF seqs = <<>> THEN <<>> ELSE Head(seqs) \o ConcatAll(Tail(seqs))

\* the records of the parent, then of each listed subdirectory in listing order
RecordsInOrder(link) ==
    ConcatAll(<<get_folder_permissions(link)>>
                  \o [i \in 1..Len(get_subfolders_walk(link)) |->
                          get_folder_permissions(get_subfolders_walk(link)[i])])

RowOf(r) == <<r["Folder Path"], r["Principal"], r["Type"], r["Permissions"]>>

\* C5: when submit_link succeeds, the returned filename names a file of the reports
\* directory whose data rows are the records of the parent followed by the records
\* of each immediate subdirectory in listing order: the same records in the same
\* order, none dropped or repeated.
C5_ReportHoldsAllRecords ==
    SubmitOk =>
        /\ last.response.filename \in DOMAIN reports
        /\ LET file == reports[last.response.filename]
               want == RecordsInOrder(last.data.link)
           IN  /\ Len(file) = 1 + Len(want)
               /\ file[1] = <<"Folder Path", "Principal", "Type", "Permissions">>
               /\ \A i \in 1..Len(want) : file[i + 1] = RowOf(want[i])

C5_Witness ==
    /\ SubmitOk
    /\ last.data.link = ROOT
    /\ scan[RootAbs] = ScanOk(<<"it", "hr">>)
    /\ \A p \in Dirs : sd[p] = SdDacl(GoodAces(p))
    /\ Len(reports[last.response.filename]) = 4
    /\ reports[last.response.filename][2][1] = "C:\\share"
    /\ reports[last.response.filename][3][1] = "C:\\share\\it"
    /\ reports[last.response.filename][4][1] = "C:\\share\\hr"

\* C6: submit_link with a missing, empty or non-existent path answers 400 before
\* any work: nothing is enumerated or listed, and the reports directory and the
\* contents of its files are as they were.
C6_InvalidPathDoesNothing ==
    [][(last'.op = "submit_link" /\ ~LinkExists(last'.data))
       => /\ last'.response.status_code = 400
          /\ last'.calls = <<>>
          /\ reports' = reports]_vars

C6_Witness ==
    /\ SubmitCall
    /\ last.data = Body(TRUE, MISSING)
    /\ last.response.status_code = 400
    /\ DOMAIN reports # {}

NoDataDetail == "Could not retrieve any permission data."
WriteFailedDetail == "Failed to generate the report file."

WriterCalled(calls) ==
    \E i \in 1..Len(calls) : calls[i].fn = "write_permissions_to_csv"

\* C8: an empty record sequence never produces a report file:
\* write_permissions_to_csv([]) returns nothing and creates or touches no file, and
\* a submit_link that gathered no record answers 500 with the "no data" detail,
\* which differs from the detail of a failed write, without calling the writer.
C8_EmptyWritesNothing ==
    [][/\ (last'.op = "write_permissions_to_csv" /\ last'.data_list = <<>>)
          => ~last'.ret.some /\ ~last'.opened /\ reports' = reports
       /\ (last'.op = "submit_link" /\ LinkExists(last'.data)
              /\ last'.all_permissions = <<>>)
          => /\ last'.response.status_code = 500
             /\ last'.response.detail = NoDataDetail
             /\ ~WriterCalled(last'.calls)
             /\ reports' = reports
       /\ (last'.op = "submit_link" /\ last'.response.status_code = 500
              /\ last'.all_permissions # <<>>)
          => /\ last'.response.detail = WriteFailedDetail
             /\ last'.response.detail # NoDataDetail]_vars

C8_Witness ==
    /\ SubmitCall
    /\ last.data.link = ROOT
    /\ last.all_permissions = <<>>
    /\ last.response.status_code = 500
    /\ last.response.detail = NoDataDetail
    /\ DOMAIN reports # {}

\* the subdirectories the scan of link lists, none when the scan fails
Listed(link) ==
    IF Walk(link).ok
    THEN [i \in 1..Len(Walk(link).dirnames) |->
              Path(link.drive, link.rooted,
                   Append(link.parts, Walk(link).dirnames[i]), FALSE)]
    ELSE <<>>

ErrorRows(all, d) ==
    {i \in 1..Len(all) : all[i]["Folder Path"] = d /\ all[i]["Type"] = "Error"}

\* C10: with an existing path, failures of single directories never fail the
\* request: a descriptor-access failure on the parent or a subdirectory becomes one
\* Error row for that directory and the remaining subdirectories are still
\* enumerated, a failed scan counts as no subdirectories, and the request reaches
\* the writer and succeeds whenever a record was gathered and the write succeeds.
C10_FailuresAreAbsorbed ==
    (SubmitCall /\ LinkExists(last.data)) =>
        LET link == last.data.link
            subs == Listed(link)
            all == last.all_permissions
            calls == last.calls
        IN  /\ last.response.status_code \in {200, 500}
            /\ Len(calls) >= 2 + Len(subs)
            /\ calls[1] = Call("get_folder_permissions", PathStr(link))
            /\ calls[2] = Call("get_subfolders_walk", PathStr(link))
            /\ \A i \in 1..Len(subs) :
                   calls[2 + i] = Call("get_folder_permissions", PathStr(subs[i]))
            /\ (~Walk(link).ok =>
                    \A i \in 1..Len(calls) :
                        calls[i].fn = "get_folder_permissions"
                            => calls[i].arg = PathStr(link))
            /\ \A d \in {link} \cup {subs[i] : i \in 1..Len(subs)} :
                   IF AccessRaises(Descriptor(Resolve(d)))
                   THEN Cardinality(ErrorRows(all, PathStr(d))) = 1
                   ELSE ErrorRows(all, PathStr(d)) = {}
            /\ (all # <<>> =>
                    /\ Len(calls) = 3 + Len(subs)
                    /\ calls[Len(calls)].fn = "write_permissions_to_csv"
                    /\ (calls[Len(calls)].arg = "ok" <=>
                            last.response.status_code = 200))
            /\ (all = <<>> => last.response.detail = NoDataDetail)

C10_Witness ==
    /\ SubmitOk
    /\ last.data.link = ROOT
    /\ scan[RootAbs].ok
    /\ sd[HrAbs].state = "raises"
    /\ Len(last.all_permissions) = 3
    /\ last.all_permissions[2]["Type"] = "Error"
    /\ last.all_permissions[2]["Folder Path"] = "C:\\share\\hr"
    /\ last.all_permissions[3]["Folder Path"] = "C:\\share\\it"

====
